---------------------------- MODULE Spec2Model ----------------------------
(***************************************************************************)
(* A model of the consumer360 retail analytics pipeline: four batch        *)
(* scripts (cleaner, segmenter, basket miner, warehouse loader) that       *)
(* communicate through files and three warehouse tables.                   *)
(*                                                                         *)
(* A DataFrame or a CSV file is a record [cols, rows]: cols is the set of  *)
(* column names and rows a sequence of functions from cols to values.      *)
(* A missing numeric value (pandas NaN) is the number NaN below; a missing *)
(* string (an empty CSV field) is the empty string.                        *)
(***************************************************************************)
EXTENDS Integers, Sequences, FiniteSets, TLC

VARIABLES
    rawFile,      \* data/raw/OnlineRetail.csv
    cleanFile,    \* data/processed/clean_retail_data.csv
    segFile,      \* outputs/customer_rfm_segments.csv
    rulesFile,    \* outputs/market_basket_rules.csv
    db,           \* the warehouse: dim_customer, dim_product, fact_sales
    pc,           \* each script's position (a line of its source)
    err,          \* the exception that ended each script's last run
    df,           \* each script's DataFrame df
    rfm,          \* the segmenter's DataFrame rfm
    basket,       \* the miner's basket matrix
    rules,        \* the miner's frequent_items / rules
    dims,         \* the loader's df_customers and df_products
    runs,         \* runs of the loader started so far (capped by MaxRuns)
    prior         \* the warehouse as the loader's current run found it (history)

vars == <<rawFile, cleanFile, segFile, rulesFile, db, pc, err, df, rfm,
          basket, rules, dims, runs, prior>>

Stages == {"cleaner", "segmenter", "miner", "loader"}

\* A file that was never written, and a local that holds nothing yet.
NoFile == [cols |-> {}, rows |-> << >>, absent |-> TRUE]
None == [cols |-> {}, rows |-> << >>]

\* pandas NaN in a numeric column: a number outside every column's range.
NaN == 0 - 999

-----------------------------------------------------------------------------
(* Bounds of the model *)

MaxRawRows == 2      \* lines of a raw export (SpecClean)
MaxCust == 5         \* customers of a population (SpecScore)
MaxLevel == 5        \* levels of purchase day and invoice count (SpecScore)
MaxBasketRows == 3   \* lines of a cleaned table (SpecBasket)
MaxLoadRows == 2     \* lines of a cleaned table (SpecLoad)
MaxPipeRows == 2     \* lines of a raw export (Spec)
MaxRuns == 2         \* runs of the loader

-----------------------------------------------------------------------------
(* Sequence helpers *)

Range(s) == {s[i] : i \in 1..Len(s)}

SeqsUpTo(S, n) == UNION {[1..k -> S] : k \in 0..n}

-----------------------------------------------------------------------------
(* Dates: text in the raw export ("12/1/2010 8:26") is <<month, day, year>>,*)
(* a parsed Timestamp is a record, and to_csv writes a Timestamp as ISO     *)
(* text ("2010-12-01 08:26:00"), <<year, month, day>>.                      *)

NaT == [year |-> 0, month |-> 0, day |-> 0]

IsMDY(t) == Len(t) = 3 /\ t[1] \in 1..12 /\ t[2] \in 1..31 /\ t[3] > 31
IsISO(t) == Len(t) = 3 /\ t[1] > 31 /\ t[2] \in 1..12 /\ t[3] \in 1..31

Parseable(t) == IsMDY(t) \/ IsISO(t)

\* pd.to_datetime on one cell
to_datetime(t) ==
    IF IsMDY(t) THEN [year |-> t[3], month |-> t[1], day |-> t[2]]
    ELSE IF IsISO(t) THEN [year |-> t[1], month |-> t[2], day |-> t[3]]
    ELSE NaT

\* to_csv's text of a Timestamp
IsoText(ts) == <<ts.year, ts.month, ts.day>>

-----------------------------------------------------------------------------
(* DataFrame helpers *)

HasCol(d, c) == c \in d.cols

WithRows(d, rs) == [cols |-> d.cols, rows |-> rs]

\* df[c] = col
AssignCol(d, c, col) ==
    [cols |-> d.cols \cup {c},
     rows |-> [i \in 1..Len(d.rows) |->
                 [k \in d.cols \cup {c} |->
                     IF k = c THEN col[i] ELSE d.rows[i][k]]]]

\* str.startswith
startswith(s, ch) == Len(s) >= 1 /\ s[1] = ch

\* pd.read_csv: the file's table (date cells stay text)
read_csv(f) == [cols |-> f.cols, rows |-> f.rows]

\* DataFrame.to_csv(index=False): Timestamp cells are written as ISO text
to_csv(d) ==
    [cols |-> d.cols,
     rows |-> [i \in 1..Len(d.rows) |->
                 [k \in d.cols |->
                     IF k = "InvoiceDate" THEN IsoText(d.rows[i][k])
                     ELSE d.rows[i][k]]]]

Exists(f) == "absent" \notin DOMAIN f

-----------------------------------------------------------------------------
(* Script control *)

Goto(s, l) == pc' = [pc EXCEPT ![s] = l]

Raise(s, e) ==
    /\ pc' = [pc EXCEPT ![s] = "aborted"]
    /\ err' = [err EXCEPT ![s] = e]

SetDf(s, d) == df' = [df EXCEPT ![s] = d]

files == <<rawFile, cleanFile, segFile, rulesFile, db>>
locals == <<rfm, basket, rules, dims>>

-----------------------------------------------------------------------------
(* 01_data_cleaning.py *)

RawCols == {"InvoiceNo", "StockCode", "Description", "Quantity",
            "InvoiceDate", "UnitPrice", "CustomerID", "Country"}

\* python 01_data_cleaning.py
CleanStart ==
    /\ pc["cleaner"] = "idle"
    /\ Goto("cleaner", "L4")
    /\ UNCHANGED <<files, err, df, locals, runs, prior>>

\* Step 1: df = pd.read_csv(raw)
CleanLoad ==
    /\ pc["cleaner"] = "L4"
    /\ SetDf("cleaner", read_csv(rawFile))
    /\ Goto("cleaner", "L13")
    /\ UNCHANGED <<files, err, locals, runs, prior>>

\* One filtering step of the cleaner: df = kept, KeyError without column c
CleanFilter(from, to, c, kept) ==
    /\ pc["cleaner"] = from
    /\ IF HasCol(df["cleaner"], c)
       THEN /\ SetDf("cleaner", kept)
            /\ Goto("cleaner", to)
            /\ UNCHANGED err
       ELSE /\ Raise("cleaner", "KeyError")
            /\ UNCHANGED df
    /\ UNCHANGED <<files, locals, runs, prior>>

NotNullCustomer(r) == r["CustomerID"] # NaN
NotCancelled(r) == ~ startswith(r["InvoiceNo"], "C")
PositiveQuantity(r) == r["Quantity"] > 0
\* (a variant that keeps free items: >= instead of >)
NonNegativePrice(r) == r["UnitPrice"] >= 0
PositivePrice(r) == r["UnitPrice"] > 0

\* df[cond]: the rows that satisfy the condition, in order
DropMissingCustomer(d) == WithRows(d, SelectSeq(d.rows, NotNullCustomer))
DropCancelled(d) == WithRows(d, SelectSeq(d.rows, NotCancelled))
KeepPositiveQuantity(d) == WithRows(d, SelectSeq(d.rows, PositiveQuantity))
KeepPositivePrice(d) == WithRows(d, SelectSeq(d.rows, PositivePrice))

\* Step 3: df = df.dropna(subset=["CustomerID"])
CleanDropna ==
    CleanFilter("L13", "L16", "CustomerID", DropMissingCustomer(df["cleaner"]))

\* Step 4: df = df[~df["InvoiceNo"].astype(str).str.startswith("C")]
CleanCancelled ==
    CleanFilter("L16", "L19", "InvoiceNo", DropCancelled(df["cleaner"]))

\* Step 5: df = df[df["Quantity"] > 0]
CleanQuantity ==
    CleanFilter("L19", "L22", "Quantity", KeepPositiveQuantity(df["cleaner"]))

\* Step 6: df = df[df["UnitPrice"] > 0]
CleanPrice ==
    CleanFilter("L22", "L25", "UnitPrice", KeepPositivePrice(df["cleaner"]))

ParsedDate(r) == to_datetime(r["InvoiceDate"])

\* df["InvoiceDate"] = pd.to_datetime(df["InvoiceDate"])
WithParsedDates(d) ==
    AssignCol(d, "InvoiceDate", [i \in 1..Len(d.rows) |-> ParsedDate(d.rows[i])])

\* Step 7: df["InvoiceDate"] = pd.to_datetime(df["InvoiceDate"])
CleanToDatetime ==
    /\ pc["cleaner"] = "L25"
    /\ IF ~ HasCol(df["cleaner"], "InvoiceDate")
       THEN Raise("cleaner", "KeyError") /\ UNCHANGED df
       ELSE IF \E r \in Range(df["cleaner"].rows) : ~ Parseable(r["InvoiceDate"])
       THEN Raise("cleaner", "ValueError") /\ UNCHANGED df
       ELSE /\ SetDf("cleaner", WithParsedDates(df["cleaner"]))
            /\ Goto("cleaner", "L28")
            /\ UNCHANGED err
    /\ UNCHANGED <<files, locals, runs, prior>>

Product(r) == r["Quantity"] * r["UnitPrice"]

WithSalesAmount(d) ==
    AssignCol(d, "SalesAmount", [i \in 1..Len(d.rows) |-> Product(d.rows[i])])

\* Step 8: df["SalesAmount"] = df["Quantity"] * df["UnitPrice"]
CleanSales ==
    /\ pc["cleaner"] = "L28"
    /\ SetDf("cleaner", WithSalesAmount(df["cleaner"]))
    /\ Goto("cleaner", "L33")
    /\ UNCHANGED <<files, err, locals, runs, prior>>

\* Step 9: df.to_csv(clean, index=False)
CleanSave ==
    /\ pc["cleaner"] = "L33"
    /\ cleanFile' = to_csv(df["cleaner"])
    /\ Goto("cleaner", "done")
    /\ UNCHANGED <<rawFile, segFile, rulesFile, db, err, df, locals, runs, prior>>

\* Step 9 when the destination cannot be opened: nothing is written
CleanSaveFail ==
    /\ pc["cleaner"] = "L33"
    /\ Raise("cleaner", "OSError")
    /\ UNCHANGED <<files, df, locals, runs, prior>>

Cleaner ==
    \/ CleanStart \/ CleanLoad \/ CleanDropna \/ CleanCancelled
    \/ CleanQuantity \/ CleanPrice \/ CleanToDatetime \/ CleanSales
    \/ CleanSave \/ CleanSaveFail

-----------------------------------------------------------------------------
(* Strings of the composite score: a Python str is the sequence of its     *)
(* code points, compared left to right, a proper prefix being smaller.     *)

Min(a, b) == IF a <= b THEN a ELSE b

\* Python's a < b on str
StrLT(a, b) ==
    \E k \in 1..(Min(Len(a), Len(b)) + 1) :
        /\ \A j \in 1..(k - 1) : a[j] = b[j]
        /\ \/ k > Len(a) /\ k <= Len(b)
           \/ k <= Len(a) /\ k <= Len(b) /\ a[k] < b[k]

\* Python's a >= b on str
StrGE(a, b) == ~ StrLT(a, b)

RECURSIVE IntStr(_)
\* str(n) of an int n >= 0: "0" is code point 48
IntStr(n) == IF n < 10 THEN <<48 + n>> ELSE IntStr(n \div 10) \o <<48 + (n % 10)>>

\* Series.astype(str): an int64 column prints "4"; a column holding NaN is
\* float64 and prints "nan" and "4.0"
astype_str(col) ==
    LET float == \E i \in 1..Len(col) : col[i] = NaN
    IN [i \in 1..Len(col) |->
          IF col[i] = NaN THEN <<110, 97, 110>>
          ELSE IF float THEN IntStr(col[i]) \o <<46, 48>>
          ELSE IntStr(col[i])]

-----------------------------------------------------------------------------
(* pd.qcut(x, 5, labels=False, duplicates='drop') *)

Q == 5

Column(d, c) == [i \in 1..Len(d.rows) |-> d.rows[i][c]]

\* the k-th smallest value of a non-empty column
Sorted(col) ==
    [k \in 1..Len(col) |->
        CHOOSE v \in Range(col) :
            /\ Cardinality({j \in 1..Len(col) : col[j] < v}) < k
            /\ k <= Cardinality({j \in 1..Len(col) : col[j] <= v})]

\* Q times the i/Q quantile of the column (linear interpolation between the
\* two nearest order statistics), kept as an integer
QuantileQ(col, i) ==
    LET s == Sorted(col)
        h == (Len(col) - 1) * i
        lo == h \div Q
        rem == h % Q
    IN IF rem = 0 THEN Q * s[lo + 1]
       ELSE Q * s[lo + 1] + rem * (s[lo + 2] - s[lo + 1])

\* the bin edges (times Q) after duplicates='drop'
BinEdges(col) == {QuantileQ(col, i) : i \in 0..Q}

\* bins.searchsorted(x, side="left"), then include_lowest
BinId(col, x) ==
    LET bins == BinEdges(col)
        lowest == CHOOSE b \in bins : \A c \in bins : b <= c
    IN IF Q * x = lowest THEN 1
       ELSE Cardinality({b \in bins : b < Q * x})

\* ids - 1, with NaN where ids == 0 or ids == len(bins)
qcut(col) ==
    [i \in 1..Len(col) |->
        LET id == BinId(col, col[i])
        IN IF id = 0 \/ id = Cardinality(BinEdges(col)) THEN NaN ELSE id - 1]

-----------------------------------------------------------------------------
(* 02_rfm_analysis.py *)

\* a Timestamp's day number (the model's dates lie within one month)
Ordinal(ts) == (ts.year * 12 + ts.month) * 31 + ts.day

MaxOf(S) == CHOOSE m \in S : \A x \in S : x <= m

RECURSIVE SumSeq(_)
SumSeq(s) == IF s = << >> THEN 0 ELSE Head(s) + SumSeq(Tail(s))

\* the keys of groupby("CustomerID"), ascending; NaN keys are dropped
GroupKeys(d) ==
    LET keys == {r["CustomerID"] : r \in Range(d.rows)} \ {NaN}
    IN [i \in 1..Cardinality(keys) |->
          CHOOSE k \in keys : Cardinality({x \in keys : x < k}) = i - 1]

RowsOf(d, cust) == SelectSeq(d.rows, LAMBDA r : r["CustomerID"] = cust)

\* snapshot_date = df["InvoiceDate"].max() + pd.Timedelta(days=1)
snapshot_date(d) == MaxOf({Ordinal(r["InvoiceDate"]) : r \in Range(d.rows)}) + 1

\* (snapshot_date - x.max()).days
Recency(d, cust) ==
    snapshot_date(d)
      - MaxOf({Ordinal(r["InvoiceDate"]) : r \in Range(RowsOf(d, cust))})

\* "InvoiceNo": "nunique"
Frequency(d, cust) ==
    Cardinality({r["InvoiceNo"] : r \in Range(RowsOf(d, cust))})

\* "SalesAmount": "sum"
Monetary(d, cust) ==
    SumSeq([i \in 1..Len(RowsOf(d, cust)) |-> RowsOf(d, cust)[i]["SalesAmount"]])

\* rfm = df.groupby("CustomerID").agg({...}).reset_index(), columns renamed
Aggregate(d) ==
    LET keys == GroupKeys(d)
    IN [cols |-> {"CustomerID", "Recency", "Frequency", "Monetary"},
        rows |-> [i \in 1..Len(keys) |->
                    [CustomerID |-> keys[i],
                     Recency |-> Recency(d, keys[i]),
                     Frequency |-> Frequency(d, keys[i]),
                     Monetary |-> Monetary(d, keys[i])]]]

\* 5 - x and x + 1 on a column: NaN stays NaN
Sub5(x) == IF x = NaN THEN NaN ELSE 5 - x
Add1(x) == IF x = NaN THEN NaN ELSE x + 1

\* (a variant with strict thresholds: > instead of >=)
segment_strict(row) ==
    IF StrLT(<<52, 52, 52>>, row["RFM_Score"]) THEN "Champions"
    ELSE IF StrLT(<<51, 51, 51>>, row["RFM_Score"]) THEN "Loyal Customers"
    ELSE IF StrLT(<<50, 50, 50>>, row["RFM_Score"]) THEN "Potential Loyalists"
    ELSE "Churn Risk"

\* def segment(row)
segment(row) ==
    IF StrGE(row["RFM_Score"], <<52, 52, 52>>) THEN "Champions"
    ELSE IF StrGE(row["RFM_Score"], <<51, 51, 51>>) THEN "Loyal Customers"
    ELSE IF StrGE(row["RFM_Score"], <<50, 50, 50>>) THEN "Potential Loyalists"
    ELSE "Churn Risk"

\* python 02_rfm_analysis.py
SegStart ==
    /\ pc["segmenter"] = "idle"
    /\ Goto("segmenter", "L4")
    /\ UNCHANGED <<files, err, df, locals, runs, prior>>

\* df = pd.read_csv(clean); df["InvoiceDate"] = pd.to_datetime(...)
SegLoad ==
    /\ pc["segmenter"] = "L4"
    /\ IF ~ Exists(cleanFile)
       THEN Raise("segmenter", "FileNotFoundError") /\ UNCHANGED df
       ELSE IF ~ HasCol(cleanFile, "InvoiceDate")
       THEN Raise("segmenter", "KeyError") /\ UNCHANGED df
       ELSE IF \E r \in Range(cleanFile.rows) : ~ Parseable(r["InvoiceDate"])
       THEN Raise("segmenter", "ValueError") /\ UNCHANGED df
       ELSE /\ SetDf("segmenter", WithParsedDates(read_csv(cleanFile)))
            /\ Goto("segmenter", "L8")
            /\ UNCHANGED err
    /\ UNCHANGED <<files, locals, runs, prior>>

\* lines 8-17: snapshot date, groupby/agg, column names
SegAggregate ==
    /\ pc["segmenter"] = "L8"
    /\ IF {"CustomerID", "InvoiceNo", "SalesAmount"} \subseteq df["segmenter"].cols
       THEN /\ rfm' = Aggregate(df["segmenter"])
            /\ Goto("segmenter", "L20")
            /\ UNCHANGED err
       ELSE /\ Raise("segmenter", "KeyError")
            /\ UNCHANGED rfm
    /\ UNCHANGED <<files, df, basket, rules, dims, runs, prior>>

\* lines 20-22: the three qcut calls
Scored(d) ==
    AssignCol(
      AssignCol(
        AssignCol(d, "R_Score", qcut(Column(d, "Recency"))),
        "F_Score", qcut(Column(d, "Frequency"))),
      "M_Score", qcut(Column(d, "Monetary")))

SegScore ==
    /\ pc["segmenter"] = "L20"
    /\ rfm' = Scored(rfm)
    /\ Goto("segmenter", "L25")
    /\ UNCHANGED <<files, err, df, basket, rules, dims, runs, prior>>

R_Normalized(r) == Sub5(r["R_Score"])
F_Normalized(r) == Add1(r["F_Score"])
M_Normalized(r) == Add1(r["M_Score"])

\* lines 25-27: reverse R_Score, shift F_Score and M_Score
Normalized(d) ==
    LET n == Len(d.rows)
        r == AssignCol(d, "R_Score", [i \in 1..n |-> R_Normalized(d.rows[i])])
        f == AssignCol(r, "F_Score", [i \in 1..n |-> F_Normalized(r.rows[i])])
    IN AssignCol(f, "M_Score", [i \in 1..n |-> M_Normalized(f.rows[i])])

SegNormalize ==
    /\ pc["segmenter"] = "L25"
    /\ rfm' = Normalized(rfm)
    /\ Goto("segmenter", "L29")
    /\ UNCHANGED <<files, err, df, basket, rules, dims, runs, prior>>

\* lines 29-33: RFM_Score = str(R) + str(F) + str(M)
Composed(d) ==
    LET R == astype_str(Column(d, "R_Score"))
        F == astype_str(Column(d, "F_Score"))
        M == astype_str(Column(d, "M_Score"))
    IN AssignCol(d, "RFM_Score",
                 [i \in 1..Len(d.rows) |-> R[i] \o F[i] \o M[i]])

SegCompose ==
    /\ pc["segmenter"] = "L29"
    /\ rfm' = Composed(rfm)
    /\ Goto("segmenter", "L46")
    /\ UNCHANGED <<files, err, df, basket, rules, dims, runs, prior>>

\* rfm.apply(segment, axis=1) set as the column "Segment"
Segmented(d) ==
    AssignCol(d, "Segment", [i \in 1..Len(d.rows) |-> segment(d.rows[i])])

\* rfm["Segment"] = rfm.apply(segment, axis=1): on a frame without rows
\* apply returns a copy of the frame, which cannot be set as one column
SegSegment ==
    /\ pc["segmenter"] = "L46"
    /\ IF rfm.rows = << >>
       THEN Raise("segmenter", "ValueError") /\ UNCHANGED rfm
       ELSE /\ rfm' = Segmented(rfm)
            /\ Goto("segmenter", "L49")
            /\ UNCHANGED err
    /\ UNCHANGED <<files, df, basket, rules, dims, runs, prior>>

\* rfm.to_csv(segments, index=False)
SegSave ==
    /\ pc["segmenter"] = "L49"
    /\ segFile' = rfm
    /\ Goto("segmenter", "done")
    /\ UNCHANGED <<rawFile, cleanFile, rulesFile, db, err, df, locals, runs, prior>>

\* the same line when the destination cannot be opened: nothing is written
SegSaveFail ==
    /\ pc["segmenter"] = "L49"
    /\ Raise("segmenter", "OSError")
    /\ UNCHANGED <<files, df, locals, runs, prior>>

Segmenter ==
    \/ SegStart \/ SegLoad \/ SegAggregate \/ SegScore \/ SegNormalize
    \/ SegCompose \/ SegSegment \/ SegSave \/ SegSaveFail

-----------------------------------------------------------------------------
(* 03_market_basket.py *)

min_support_percent == 2

\* the lines groupby(["InvoiceNo", "Description"]) groups: a missing key
\* drops the line
Grouped(d) ==
    SelectSeq(d.rows, LAMBDA r : r["InvoiceNo"] # << >> /\ r["Description"] # "")

\* .sum() of Quantity over the lines of one (invoice, description) group
QuantitySum(d, inv, desc) ==
    LET g == SelectSeq(Grouped(d),
                       LAMBDA r : r["InvoiceNo"] = inv /\ r["Description"] = desc)
    IN SumSeq([i \in 1..Len(g) |-> g[i]["Quantity"]])

\* (a variant that needs two units: x > 1)
MoreThanOne(x) == x > 1

\* lambda x: x > 0
Positive(x) == x > 0

\* groupby(...)["Quantity"].sum().unstack().fillna(0), then map(Positive)
Basket(d) ==
    LET g == Range(Grouped(d))
        invoices == {r["InvoiceNo"] : r \in g}
        items == {r["Description"] : r \in g}
    IN [index |-> invoices,
        columns |-> items,
        cell |-> [k \in invoices \X items |->
                    IF \E r \in g : r["InvoiceNo"] = k[1] /\ r["Description"] = k[2]
                    THEN Positive(QuantitySum(d, k[1], k[2]))
                    ELSE Positive(0)]]

NoBasket == [index |-> {}, columns |-> {}, cell |-> << >>]
NoRules == [frequent_items |-> {}, rules |-> {}]

\* the number of invoices whose row holds every item of the set
SupportCount(b, S) ==
    Cardinality({i \in b.index : \A x \in S : b.cell[<<i, x>>]})

\* apriori(basket, min_support=0.02, use_colnames=True)
apriori(b) ==
    {S \in SUBSET b.columns :
        /\ S # {}
        /\ 100 * SupportCount(b, S) >= min_support_percent * Cardinality(b.index)}

\* association_rules(frequent_items, metric="lift", min_threshold=1): support,
\* confidence and lift are kept as <<numerator, denominator>>
association_rules(b, frequent) ==
    LET n == Cardinality(b.index)
    IN UNION {{[antecedents |-> A, consequents |-> S \ A,
                support |-> <<SupportCount(b, S), n>>,
                confidence |-> <<SupportCount(b, S), SupportCount(b, A)>>,
                lift |-> <<SupportCount(b, S) * n,
                           SupportCount(b, A) * SupportCount(b, S \ A)>>] :
                 A \in SUBSET S} : S \in frequent}

\* the rules kept: both sides non-empty and lift >= 1
KeptRules(b, frequent) ==
    {r \in association_rules(b, frequent) :
        /\ r.antecedents # {} /\ r.consequents # {}
        /\ r.lift[1] >= r.lift[2]}

\* python 03_market_basket.py
MineStart ==
    /\ pc["miner"] = "idle"
    /\ Goto("miner", "L5")
    /\ UNCHANGED <<files, err, df, locals, runs, prior>>

\* df = pd.read_csv(clean)
MineLoad ==
    /\ pc["miner"] = "L5"
    /\ IF Exists(cleanFile)
       THEN SetDf("miner", read_csv(cleanFile)) /\ Goto("miner", "L8")
            /\ UNCHANGED err
       ELSE Raise("miner", "FileNotFoundError") /\ UNCHANGED df
    /\ UNCHANGED <<files, locals, runs, prior>>

\* lines 8-14: the incidence matrix
MineBasket ==
    /\ pc["miner"] = "L8"
    /\ IF {"InvoiceNo", "Description", "Quantity"} \subseteq df["miner"].cols
       THEN basket' = Basket(df["miner"]) /\ Goto("miner", "L17")
            /\ UNCHANGED err
       ELSE Raise("miner", "KeyError") /\ UNCHANGED basket
    /\ UNCHANGED <<files, df, rfm, rules, dims, runs, prior>>

\* frequent_items = apriori(...)
MineApriori ==
    /\ pc["miner"] = "L17"
    /\ rules' = [frequent_items |-> apriori(basket), rules |-> {}]
    /\ Goto("miner", "L19")
    /\ UNCHANGED <<files, err, df, rfm, basket, dims, runs, prior>>

\* rules = association_rules(...): ValueError when frequent_items is empty
MineRules ==
    /\ pc["miner"] = "L19"
    /\ IF rules.frequent_items = {}
       THEN Raise("miner", "ValueError") /\ UNCHANGED rules
       ELSE /\ rules' = [rules EXCEPT
                           !.rules = KeptRules(basket, rules.frequent_items)]
            /\ Goto("miner", "L26")
            /\ UNCHANGED err
    /\ UNCHANGED <<files, df, rfm, basket, dims, runs, prior>>

\* (a variant that writes the rules over the segment table)
MineSaveToSegments ==
    /\ pc["miner"] = "L26"
    /\ segFile' = [cols |-> {"antecedents", "consequents", "support",
                             "confidence", "lift"},
                   rows |-> rules.rules]
    /\ Goto("miner", "done")
    /\ UNCHANGED <<rawFile, cleanFile, rulesFile, db, err, df, locals, runs, prior>>

\* rules.sort_values("lift", ascending=False).to_csv(...): the file is kept
\* as the set of its rules
MineSave ==
    /\ pc["miner"] = "L26"
    /\ rulesFile' = [cols |-> {"antecedents", "consequents", "support",
                               "confidence", "lift"},
                     rows |-> rules.rules]
    /\ Goto("miner", "done")
    /\ UNCHANGED <<rawFile, cleanFile, segFile, db, err, df, locals, runs, prior>>

\* the same line when the destination cannot be opened: nothing is written
MineSaveFail ==
    /\ pc["miner"] = "L26"
    /\ Raise("miner", "OSError")
    /\ UNCHANGED <<files, df, locals, runs, prior>>

Miner ==
    \/ MineStart \/ MineLoad \/ MineBasket \/ MineApriori \/ MineRules
    \/ MineSave \/ MineSaveFail

-----------------------------------------------------------------------------
(* 04_load_to_postgres.py *)

RECURSIVE drop_duplicates(_)
\* DataFrame.drop_duplicates(): the first occurrence of each row, in order
drop_duplicates(rows) ==
    IF rows = << >> THEN << >>
    ELSE LET init == drop_duplicates(SubSeq(rows, 1, Len(rows) - 1))
             last == rows[Len(rows)]
         IN IF last \in Range(init) THEN init ELSE Append(init, last)

\* df[["CustomerID", "Country"]].drop_duplicates(), columns renamed
df_customers(d) ==
    [cols |-> {"customer_id", "country"},
     rows |-> drop_duplicates(
                [i \in 1..Len(d.rows) |->
                    [customer_id |-> d.rows[i]["CustomerID"],
                     country |-> d.rows[i]["Country"]]])]

\* df[["StockCode", "Description"]].drop_duplicates(), columns renamed
df_products(d) ==
    [cols |-> {"product_id", "product_name"},
     rows |-> drop_duplicates(
                [i \in 1..Len(d.rows) |->
                    [product_id |-> d.rows[i]["StockCode"],
                     product_name |-> d.rows[i]["Description"]]])]

\* df[[...six columns...]], columns renamed
df_facts(d) ==
    [cols |-> {"invoice_no", "customer_id", "product_id", "quantity",
               "sales_amount", "invoice_date"},
     rows |-> [i \in 1..Len(d.rows) |->
                 [invoice_no |-> d.rows[i]["InvoiceNo"],
                  customer_id |-> d.rows[i]["CustomerID"],
                  product_id |-> d.rows[i]["StockCode"],
                  quantity |-> d.rows[i]["Quantity"],
                  sales_amount |-> d.rows[i]["SalesAmount"],
                  invoice_date |-> d.rows[i]["InvoiceDate"]]]]

NoDims == [customers |-> None, products |-> None, facts |-> None]

\* python 04_load_to_postgres.py
LoadStart ==
    /\ pc["loader"] \in {"idle", "done", "aborted"}
    /\ runs < MaxRuns
    /\ Goto("loader", "L5")
    /\ err' = [err EXCEPT !["loader"] = "none"]
    /\ prior' = db
    /\ runs' = runs + 1
    /\ dims' = NoDims
    /\ SetDf("loader", None)
    /\ UNCHANGED <<files, rfm, basket, rules>>

\* df = pd.read_csv(clean)
LoadRead ==
    /\ pc["loader"] = "L5"
    /\ IF Exists(cleanFile)
       THEN SetDf("loader", read_csv(cleanFile)) /\ Goto("loader", "L16")
            /\ UNCHANGED err
       ELSE Raise("loader", "FileNotFoundError") /\ UNCHANGED df
    /\ UNCHANGED <<files, locals, runs, prior>>

\* lines 16-20: the two dimension frames
LoadDims ==
    /\ pc["loader"] = "L16"
    /\ IF {"CustomerID", "Country", "StockCode", "Description"}
             \subseteq df["loader"].cols
       THEN /\ dims' = [dims EXCEPT !.customers = df_customers(df["loader"]),
                                    !.products = df_products(df["loader"])]
            /\ Goto("loader", "L26")
            /\ UNCHANGED err
       ELSE Raise("loader", "KeyError") /\ UNCHANGED dims
    /\ UNCHANGED <<files, df, rfm, basket, rules, runs, prior>>

\* (a variant with if_exists="append")
ToSqlAppend(from, to, table, frame) ==
    /\ pc["loader"] = from
    /\ db' = [db EXCEPT ![table] =
                 [cols |-> frame.cols, rows |-> db[table].rows \o frame.rows]]
    /\ Goto("loader", to)
    /\ UNCHANGED <<rawFile, cleanFile, segFile, rulesFile, err, df, locals,
                   runs, prior>>

\* One to_sql(table, engine, if_exists="replace", index=False)
ToSql(from, to, table, frame) ==
    /\ pc["loader"] = from
    /\ db' = [db EXCEPT ![table] = frame]
    /\ Goto("loader", to)
    /\ UNCHANGED <<rawFile, cleanFile, segFile, rulesFile, err, df, locals,
                   runs, prior>>

\* The same call when the database refuses it: the table is left as it was
ToSqlFail(from) ==
    /\ pc["loader"] = from
    /\ Raise("loader", "OperationalError")
    /\ UNCHANGED <<files, df, locals, runs, prior>>

\* df_customers.to_sql("dim_customer", ...)
LoadWriteCustomers == ToSql("L26", "L27", "dim_customer", dims.customers)

\* df_products.to_sql("dim_product", ...)
LoadWriteProducts == ToSql("L27", "L30", "dim_product", dims.products)

\* lines 30-46: the fact frame
LoadFacts ==
    /\ pc["loader"] = "L30"
    /\ IF {"InvoiceNo", "CustomerID", "StockCode", "Quantity", "SalesAmount",
           "InvoiceDate"} \subseteq df["loader"].cols
       THEN /\ dims' = [dims EXCEPT !.facts = df_facts(df["loader"])]
            /\ Goto("loader", "L48")
            /\ UNCHANGED err
       ELSE Raise("loader", "KeyError") /\ UNCHANGED dims
    /\ UNCHANGED <<files, df, rfm, basket, rules, runs, prior>>

\* df_facts.to_sql("fact_sales", ...): the run is complete
LoadWriteFacts == ToSql("L48", "done", "fact_sales", dims.facts)

LoadWriteFail == ToSqlFail("L26") \/ ToSqlFail("L27") \/ ToSqlFail("L48")

Loader ==
    \/ LoadStart \/ LoadRead \/ LoadDims \/ LoadWriteCustomers
    \/ LoadWriteProducts \/ LoadFacts \/ LoadWriteFacts \/ LoadWriteFail

-----------------------------------------------------------------------------
(* Raw exports the cleaner is run on *)

MDY(d) == <<12, d, 2010>>
BadDate == <<99, 99, 9999>>

RawRows ==
    [InvoiceNo : {<<"1">>, <<"C", "1">>},
     StockCode : {"A"},
     Description : {"MUG"},
     Quantity : {0 - 1, 2},
     InvoiceDate : {MDY(1), BadDate},
     UnitPrice : {0, 3},
     CustomerID : {NaN, 7},
     Country : {"UK"}]

Restrict(r, cols) == [c \in cols |-> r[c]]

\* a raw export has all eight columns or lacks one of them
RawSchemas == {RawCols} \cup {RawCols \ {c} : c \in RawCols}

RawTables ==
    {[cols |-> cs, rows |-> [i \in 1..Len(rs) |-> Restrict(rs[i], cs)]] :
        cs \in RawSchemas, rs \in SeqsUpTo(RawRows, MaxRawRows)}

Idle == [s \in Stages |-> "idle"]
NoErr == [s \in Stages |-> "none"]
NoDb == [dim_customer |-> NoFile, dim_product |-> NoFile, fact_sales |-> NoFile]

InitLocals ==
    /\ pc = Idle
    /\ err = NoErr
    /\ df = [s \in Stages |-> None]
    /\ rfm = None
    /\ basket = NoBasket
    /\ rules = NoRules
    /\ dims = NoDims
    /\ runs = 0
    /\ prior = NoDb

InitClean ==
    /\ rawFile \in RawTables
    /\ cleanFile = NoFile
    /\ segFile = NoFile
    /\ rulesFile = NoFile
    /\ db = NoDb
    /\ InitLocals

SpecClean == InitClean /\ [][Cleaner]_vars

\* the cleaner's output file for a raw export it accepts (lines 4-33)
Cleaned(raw) ==
    to_csv(WithSalesAmount(WithParsedDates(
      KeepPositivePrice(KeepPositiveQuantity(DropCancelled(
        DropMissingCustomer(read_csv(raw))))))))

-----------------------------------------------------------------------------
(* Customer populations the segmenter is run on: customer i bought on      *)
(* freqs[i] invoices, the latest on day days[i]; the first invoice has two *)
(* lines, and customer 1 also has a cancelled invoice.                     *)

Digit(n) == <<"0", "1", "2", "3", "4", "5", "6", "7", "8", "9">>[n + 1]

Line(inv, code, desc, qty, date, price, cust, country) ==
    [InvoiceNo |-> inv, StockCode |-> code, Description |-> desc,
     Quantity |-> qty, InvoiceDate |-> date, UnitPrice |-> price,
     CustomerID |-> cust, Country |-> country]

InvoiceLines(i, k, day, price) ==
    IF k = 1
    THEN <<Line(<<Digit(i), Digit(k)>>, "A", "MUG", 1, MDY(day), price, i, "UK"),
           Line(<<Digit(i), Digit(k)>>, "B", "CUP", 1, MDY(day), price, i, "UK")>>
    ELSE <<Line(<<Digit(i), Digit(k)>>, "A", "MUG", 2, MDY(1), price, i, "UK")>>

RECURSIVE CustomerLines(_, _, _, _)
CustomerLines(i, k, day, price) ==
    IF k = 0 THEN << >>
    ELSE CustomerLines(i, k - 1, day, price) \o InvoiceLines(i, k, day, price)

RECURSIVE PopulationLines(_, _, _, _)
PopulationLines(n, days, freqs, prices) ==
    IF n = 0 THEN << >>
    ELSE PopulationLines(n - 1, days, freqs, prices)
           \o CustomerLines(n, freqs[n], days[n], prices[n])

Cancellation == Line(<<"C", "1">>, "A", "MUG", 0 - 1, MDY(1), 2, 1, "UK")

PopulationRaw(n, days, freqs, prices) ==
    [cols |-> RawCols,
     rows |-> PopulationLines(n, days, freqs, prices)
                \o (IF n = 0 THEN << >> ELSE <<Cancellation>>)]

\* the non-decreasing lists of n levels in 1..k that start at level 1
NonDecreasing(n, k) ==
    {v \in [1..n -> 1..k] :
        /\ n >= 1 => v[1] = 1
        /\ \A i \in 1..(n - 1) : v[i] <= v[i + 1]}

\* every customer pays the same price, or customer i pays n + 1 - i
PriceLists(n) == {[i \in 1..n |-> 1], [i \in 1..n |-> n + 1 - i]}

InitScore ==
    /\ \E n \in 0..MaxCust :
         \E days \in NonDecreasing(n, MaxLevel), freqs \in NonDecreasing(n, MaxLevel),
            prices \in PriceLists(n) :
             rawFile = PopulationRaw(n, days, freqs, prices)
    /\ cleanFile = Cleaned(rawFile)
    /\ segFile = NoFile
    /\ rulesFile = NoFile
    /\ db = NoDb
    /\ InitLocals

SpecScore == InitScore /\ [][Segmenter]_vars


-----------------------------------------------------------------------------
(* segment() on every composite score: the segmenter from line 29 on, with *)
(* one customer whose three scores are drawn from 1..5.                    *)

ScoreRow(r, f, m) ==
    [CustomerID |-> 7, Recency |-> 1, Frequency |-> 1, Monetary |-> 1,
     R_Score |-> r, F_Score |-> f, M_Score |-> m]

InitSegment ==
    /\ rawFile = NoFile
    /\ cleanFile = NoFile
    /\ segFile = NoFile
    /\ rulesFile = NoFile
    /\ db = NoDb
    /\ pc = [Idle EXCEPT !["segmenter"] = "L29"]
    /\ err = NoErr
    /\ df = [s \in Stages |-> None]
    /\ \E r \in 1..Q, f \in 1..Q, m \in 1..Q :
          rfm = [cols |-> DOMAIN ScoreRow(r, f, m), rows |-> <<ScoreRow(r, f, m)>>]
    /\ basket = NoBasket
    /\ rules = NoRules
    /\ dims = NoDims
    /\ runs = 0
    /\ prior = NoDb

SpecSegment ==
    InitSegment /\ [][SegCompose \/ SegSegment \/ SegSave \/ SegSaveFail]_vars

-----------------------------------------------------------------------------
(* Cleaned tables the basket miner is run on: three invoices, three products *)
(* (one without a description), one customer.                              *)

Items == {<<"A", "MUG">>, <<"B", "CUP">>, <<"C", "">>}

BasketRows ==
    {Line(inv, it[1], it[2], q, MDY(1), 2, 7, "UK") :
        inv \in {<<"1">>, <<"2">>, <<"3">>}, it \in Items, q \in {1, 2}}

InitBasket ==
    /\ \E rs \in SeqsUpTo(BasketRows, MaxBasketRows) :
          rawFile = [cols |-> RawCols, rows |-> rs]
    /\ cleanFile = Cleaned(rawFile)
    /\ segFile = NoFile
    /\ rulesFile = NoFile
    /\ db = NoDb
    /\ InitLocals

SpecBasket == InitBasket /\ [][Miner]_vars

-----------------------------------------------------------------------------
(* The loader run again and again, the cleaner run on a new export between *)
(* two of its runs.                                                        *)

LoadRows ==
    {Line(<<"1">>, "A", "MUG", 1, MDY(1), 2, 7, "UK"),
     Line(<<"2">>, "A", "CUP", 2, MDY(2), 3, 7, "FR")}

LoadRaws ==
    {[cols |-> RawCols, rows |-> rs] : rs \in SeqsUpTo(LoadRows, MaxLoadRows)}

\* python 01_data_cleaning.py, run to completion on a new export while the
\* loader is not running
CleanerRun ==
    /\ pc["loader"] \in {"idle", "done", "aborted"}
    /\ \E raw \in LoadRaws :
          /\ raw # rawFile
          /\ rawFile' = raw
          /\ cleanFile' = Cleaned(raw)
    /\ UNCHANGED <<segFile, rulesFile, db, pc, err, df, locals, runs, prior>>

InitLoad ==
    /\ rawFile \in LoadRaws
    /\ cleanFile = Cleaned(rawFile)
    /\ segFile = NoFile
    /\ rulesFile = NoFile
    /\ db = NoDb
    /\ InitLocals

SpecLoad == InitLoad /\ [][Loader \/ CleanerRun]_vars

-----------------------------------------------------------------------------
(* Stages 2-4 run on one cleaned table, their steps interleaved.           *)

PipeRows ==
    {Line(<<"1">>, "A", "MUG", 1, MDY(1), 2, 7, "UK"),
     Line(<<"2">>, "B", "CUP", 2, MDY(2), 3, 8, "FR"),
     Line(<<"2">>, "A", "MUG", 1, MDY(2), 2, 7, "UK"),
     Line(<<"C", "1">>, "A", "MUG", 0 - 1, MDY(1), 2, 7, "UK")}

InitPipe ==
    /\ \E rs \in SeqsUpTo(PipeRows, MaxPipeRows) :
          rawFile = [cols |-> RawCols, rows |-> rs]
    /\ cleanFile = Cleaned(rawFile)
    /\ segFile = NoFile
    /\ rulesFile = NoFile
    /\ db = NoDb
    /\ InitLocals

\* what each script, run alone to completion, writes for a cleaned table
SegmenterOutput(f) ==
    Segmented(Composed(Normalized(Scored(
      Aggregate(WithParsedDates(read_csv(f)))))))

MinerOutput(f) ==
    [cols |-> {"antecedents", "consequents", "support", "confidence", "lift"},
     rows |-> KeptRules(Basket(read_csv(f)), apriori(Basket(read_csv(f))))]

LoaderOutput(f) ==
    [dim_customer |-> df_customers(read_csv(f)),
     dim_product |-> df_products(read_csv(f)),
     fact_sales |-> df_facts(read_csv(f))]

Next == Segmenter \/ Miner \/ Loader

Spec == InitPipe /\ [][Next]_vars


-----------------------------------------------------------------------------
(* The claims *)

Ended(s) == pc[s] \in {"done", "aborted"}

\* the four retention conditions, as the contract words them
Retained(r) ==
    /\ r["CustomerID"] # NaN
    /\ ~ (Len(r["InvoiceNo"]) >= 1 /\ Head(r["InvoiceNo"]) = "C")
    /\ r["Quantity"] > 0
    /\ r["UnitPrice"] > 0

\* C1 as stated: when the cleaner completes, its output holds exactly the raw
\* lines that satisfy the four conditions, each with SalesAmount = Quantity x
\* UnitPrice and with every other column, InvoiceDate included, as in the raw line.
C1_NoOtherColumnChanged ==
    pc["cleaner"] = "done" =>
        LET kept == SelectSeq(rawFile.rows, Retained)
        IN /\ Len(cleanFile.rows) = Len(kept)
           /\ \A i \in 1..Len(kept) :
                /\ cleanFile.rows[i]["SalesAmount"]
                      = kept[i]["Quantity"] * kept[i]["UnitPrice"]
                /\ \A c \in rawFile.cols : cleanFile.rows[i][c] = kept[i][c]

\* C1 as amended: when the cleaner completes, its output holds exactly the raw
\* lines that satisfy the four conditions, each with a positive SalesAmount =
\* Quantity x UnitPrice, with InvoiceDate rewritten from month/day/year text to
\* the same date as year-month-day text, and with every other column unchanged.
C1_CleanedRows ==
    pc["cleaner"] = "done" =>
        LET kept == SelectSeq(rawFile.rows, Retained)
        IN /\ cleanFile.cols = rawFile.cols \cup {"SalesAmount"}
           /\ Len(cleanFile.rows) = Len(kept)
           /\ \A i \in 1..Len(kept) :
                /\ cleanFile.rows[i]["SalesAmount"]
                      = kept[i]["Quantity"] * kept[i]["UnitPrice"]
                /\ cleanFile.rows[i]["SalesAmount"] > 0
                /\ cleanFile.rows[i]["InvoiceDate"]
                      = <<kept[i]["InvoiceDate"][3], kept[i]["InvoiceDate"][1],
                          kept[i]["InvoiceDate"][2]>>
                /\ \A c \in rawFile.cols \ {"InvoiceDate"} :
                      cleanFile.rows[i][c] = kept[i][c]

\* the cleaner has completed on two raw lines, one kept and one removed
C1_Witness ==
    /\ pc["cleaner"] = "done"
    /\ Len(rawFile.rows) = 2
    /\ Len(cleanFile.rows) = 1
    /\ Retained(rawFile.rows[2])

\* the label of the three-digit number 100 R + 10 F + M
NumericSegment(n) ==
    IF n >= 444 THEN "Champions"
    ELSE IF n >= 333 THEN "Loyal Customers"
    ELSE IF n >= 222 THEN "Potential Loyalists"
    ELSE "Churn Risk"

\* C2: for scores R, F, M in 1..5 the composite string is the three digits, and
\* segment() on it gives the label that comparing 100 R + 10 F + M with 444, 333
\* and 222 (first match) gives.
C2_SegmentIsNumeric ==
    "Segment" \in rfm.cols =>
        \A r \in Range(rfm.rows) :
            /\ r["RFM_Score"]
                  = <<48 + r["R_Score"], 48 + r["F_Score"], 48 + r["M_Score"]>>
            /\ r["Segment"]
                  = NumericSegment(100 * r["R_Score"] + 10 * r["F_Score"]
                                     + r["M_Score"])

\* segment() has labelled "443": first digit at the threshold, number below it
C2_Witness ==
    /\ "Segment" \in rfm.cols
    /\ \E r \in Range(rfm.rows) :
          /\ r["R_Score"] = 4 /\ r["F_Score"] = 4 /\ r["M_Score"] = 3
          /\ r["Segment"] = "Loyal Customers"

\* C3: in the segment table every R_Score, F_Score and M_Score is an integer in
\* 1..5, whatever the population, and R_Score is 5 exactly for the customers of
\* recency bucket 0.
C3_ScoresInRange ==
    pc["segmenter"] = "done" =>
        \A i \in 1..Len(segFile.rows) :
            /\ segFile.rows[i]["R_Score"] \in 1..5
            /\ segFile.rows[i]["F_Score"] \in 1..5
            /\ segFile.rows[i]["M_Score"] \in 1..5
            /\ segFile.rows[i]["R_Score"] = 5
                  <=> qcut(Column(segFile, "Recency"))[i] = 0

\* customer i is in the best (lowest) recency bucket and in the highest
\* frequency and monetary buckets of the segment table
TopOnAll(t, i) ==
    \A j \in 1..Len(t.rows) :
        /\ qcut(Column(t, "Recency"))[i] <= qcut(Column(t, "Recency"))[j]
        /\ qcut(Column(t, "Frequency"))[i] >= qcut(Column(t, "Frequency"))[j]
        /\ qcut(Column(t, "Monetary"))[i] >= qcut(Column(t, "Monetary"))[j]

BottomOnAll(t, i) ==
    \A j \in 1..Len(t.rows) :
        /\ qcut(Column(t, "Recency"))[i] >= qcut(Column(t, "Recency"))[j]
        /\ qcut(Column(t, "Frequency"))[i] <= qcut(Column(t, "Frequency"))[j]
        /\ qcut(Column(t, "Monetary"))[i] <= qcut(Column(t, "Monetary"))[j]

\* C4: in every population (here: every one whose scores are all numbers) a
\* customer in the top bucket of all three metrics has composite "555" and is a
\* Champion, and a customer in the bottom bucket of all three has "111" and is
\* Churn Risk.
C4_TopIs555BottomIs111 ==
    (/\ pc["segmenter"] = "done"
     /\ \A r \in Range(segFile.rows) :
           r["R_Score"] # NaN /\ r["F_Score"] # NaN /\ r["M_Score"] # NaN) =>
        \A i \in 1..Len(segFile.rows) :
            /\ TopOnAll(segFile, i) =>
                  /\ segFile.rows[i]["RFM_Score"] = <<53, 53, 53>>
                  /\ segFile.rows[i]["Segment"] = "Champions"
            /\ BottomOnAll(segFile, i) =>
                  /\ segFile.rows[i]["RFM_Score"] = <<49, 49, 49>>
                  /\ segFile.rows[i]["Segment"] = "Churn Risk"

\* C5: a run of the loader that aborts leaves the three warehouse tables as an
\* earlier successful run wrote them.
C5_FailedRunLeavesOutputs ==
    (/\ pc["loader"] = "aborted"
     /\ \A t \in DOMAIN prior : Exists(prior[t])) =>
        db = prior

AllDone == \A s \in {"segmenter", "miner", "loader"} : pc[s] = "done"

\* C6: whatever the interleaving of the steps of the segmenter, the miner and
\* the loader, the cleaned table stays the cleaner's output, and once the three
\* have completed, the segment table, the rule table and the warehouse are what
\* each script run alone writes for that cleaned table.
C6_StagesIndependent ==
    /\ cleanFile = Cleaned(rawFile)
    /\ AllDone =>
          /\ segFile = SegmenterOutput(cleanFile)
          /\ rulesFile = MinerOutput(cleanFile)
          /\ db = LoaderOutput(cleanFile)

\* the three have completed on a table of two customers that yields rules
C6_Witness ==
    /\ AllDone
    /\ Len(segFile.rows) = 2
    /\ rulesFile.rows # {}
    /\ Len(db.fact_sales.rows) = 2

\* C7: on a raw export that lacks one of the eight columns the cleaner ends
\* with an error and no cleaned table is written.
C7_MissingColumnAborts ==
    (rawFile.cols # RawCols /\ Ended("cleaner")) =>
        pc["cleaner"] = "aborted" /\ ~ Exists(cleanFile)

\* C8: after a successful run of the loader, dim_customer holds exactly the
\* distinct (CustomerID, Country) pairs of the table the run read, once each,
\* dim_product its distinct (StockCode, Description) pairs, once each, and
\* fact_sales one row per line of it: nothing of an earlier run remains.
C8_FullReplace ==
    pc["loader"] = "done" =>
        LET d == df["loader"]
            customers == {[customer_id |-> r["CustomerID"], country |-> r["Country"]] :
                             r \in Range(d.rows)}
            products == {[product_id |-> r["StockCode"],
                          product_name |-> r["Description"]] : r \in Range(d.rows)}
        IN /\ Range(db.dim_customer.rows) = customers
           /\ Len(db.dim_customer.rows) = Cardinality(customers)
           /\ Range(db.dim_product.rows) = products
           /\ Len(db.dim_product.rows) = Cardinality(products)
           /\ Len(db.fact_sales.rows) = Len(d.rows)
           /\ \A i \in 1..Len(d.rows) :
                 /\ db.fact_sales.rows[i].invoice_no = d.rows[i]["InvoiceNo"]
                 /\ db.fact_sales.rows[i].customer_id = d.rows[i]["CustomerID"]
                 /\ db.fact_sales.rows[i].product_id = d.rows[i]["StockCode"]
                 /\ db.fact_sales.rows[i].quantity = d.rows[i]["Quantity"]
                 /\ db.fact_sales.rows[i].sales_amount = d.rows[i]["SalesAmount"]
                 /\ db.fact_sales.rows[i].invoice_date = d.rows[i]["InvoiceDate"]

\* a second successful run has replaced a larger earlier load by a table with
\* a repeated line
C8_Witness ==
    /\ pc["loader"] = "done"
    /\ runs = 2
    /\ Exists(prior.fact_sales)
    /\ Len(prior.dim_customer.rows) = 2
    /\ Len(db.dim_customer.rows) = 1
    /\ Len(db.fact_sales.rows) = 2

\* the miner has built its matrix
BasketBuilt ==
    \/ pc["miner"] \in {"L17", "L19", "L26", "done"}
    \/ pc["miner"] = "aborted" /\ err["miner"] \in {"ValueError", "OSError"}

\* the cell of the claim: the summed Quantity of the lines of (inv, desc) is > 0
SumPositive(t, inv, desc) ==
    LET ls == SelectSeq(t.rows,
                        LAMBDA r : r["InvoiceNo"] = inv /\ r["Description"] = desc)
    IN SumSeq([i \in 1..Len(ls) |-> ls[i]["Quantity"]]) > 0

\* C9 as stated: the matrix has one row per distinct InvoiceNo of the cleaned
\* table, one column per distinct Description present in it, and cell (I, D) is
\* true exactly when the Quantity of the lines of (I, D) sums to more than 0.
C9_RowPerInvoice ==
    BasketBuilt =>
        /\ basket.index = {r["InvoiceNo"] : r \in Range(cleanFile.rows)}
        /\ basket.columns = {r["Description"] : r \in Range(cleanFile.rows)} \ {""}
        /\ \A inv \in basket.index, desc \in basket.columns :
              basket.cell[<<inv, desc>>] <=> SumPositive(cleanFile, inv, desc)

\* C9 as amended: the matrix has one row per distinct InvoiceNo that has a line
\* with a Description, one column per distinct Description present, and cell
\* (I, D) is true exactly when the Quantity of the lines of (I, D) sums to more
\* than 0.
C9_RowPerDescribedInvoice ==
    BasketBuilt =>
        /\ basket.index = {r["InvoiceNo"] :
                              r \in {x \in Range(cleanFile.rows) : x["Description"] # ""}}
        /\ basket.columns = {r["Description"] : r \in Range(cleanFile.rows)} \ {""}
        /\ DOMAIN basket.cell = basket.index \X basket.columns
        /\ \A inv \in basket.index, desc \in basket.columns :
              basket.cell[<<inv, desc>>] <=> SumPositive(cleanFile, inv, desc)

\* a matrix with a true cell and a false cell, and an invoice left out of it
C9_Witness ==
    /\ BasketBuilt
    /\ \E k \in DOMAIN basket.cell : basket.cell[k]
    /\ \E k \in DOMAIN basket.cell : ~ basket.cell[k]
    /\ \E r \in Range(cleanFile.rows) : r["InvoiceNo"] \notin basket.index

\* C10: the segmenter ends with an error only when its destination cannot be
\* written, and when it completes the segment table has one record per
\* distinct CustomerID of the cleaned table (none for an empty table).
C10_NoErrorCondition ==
    /\ pc["segmenter"] = "aborted" => err["segmenter"] = "OSError"
    /\ pc["segmenter"] = "done" =>
          /\ {r["CustomerID"] : r \in Range(segFile.rows)}
                = {r["CustomerID"] : r \in Range(cleanFile.rows)}
          /\ Len(segFile.rows)
                = Cardinality({r["CustomerID"] : r \in Range(cleanFile.rows)})

=============================================================================
